---- MODULE Spec2Model ----
(***************************************************************************)
(* Invoice manager: the invoices table, the three tRPC procedures          *)
(* (createInvoice, getInvoices, updateInvoiceStatus) and the conversion of *)
(* amount_due between the JavaScript number and the numeric(10,2) column.  *)
(*                                                                         *)
(* A JavaScript number is modelled as a decimal value with three           *)
(* fractional digits, [units, milli] = units + milli/1000.  A decimal      *)
(* text (the string sent to / returned by the numeric column) is           *)
(* [ip, fd]: the integer part and the sequence of fractional digits.       *)
(***************************************************************************)
EXTENDS Integers, Sequences, FiniteSets, TLC

VARIABLES invoicesTable, id_seq, now, last, inserted, calls,
          invoices, isLoading, isCreating, formData, requests, lastEvent

vars == <<invoicesTable, id_seq, now, last, inserted, calls,
          invoices, isLoading, isCreating, formData, requests, lastEvent>>

\* The state of the client application (App), its requests under way and
\* the record of the last response it handled.
clientVars == <<invoices, isLoading, isCreating, formData, requests, lastEvent>>

\* The store and the record of the calls made on it.
serverVars == <<invoicesTable, id_seq, now, last, inserted>>

(* ------------------------------ bounds -------------------------------- *)

\* Largest reading of the database clock.
MaxClock == 1

\* Number of callers whose calls on the router may overlap.
MaxCallers == 3

\* Number of requests the client application may have under way.
MaxInFlight == 2

(* -------------------------- program constants ------------------------- *)

\* numeric('amount_due', { precision: 10, scale: 2 })
NumericPrecision == 10

NumericScale == 2

\* z.string().min(1, ...)
MinLen == 1

invoiceStatusEnum == {"Pending", "Paid"}

(* ----------------------- numbers and decimal text --------------------- *)

Num(u, m) == [units |-> u, milli |-> m]

\* z.number().positive()
Positive(n) == n.units > 0 \/ (n.units = 0 /\ n.milli > 0)

RECURSIVE StripZeros(_)
StripZeros(ds) ==
    IF ds # <<>> /\ ds[Len(ds)] = 0
    THEN StripZeros(SubSeq(ds, 1, Len(ds) - 1))
    ELSE ds

\* Number.prototype.toString of a positive number: the shortest decimal text,
\* so trailing zeros of the fraction are dropped (1000.5, not 1000.500).
NumberToString(n) ==
    [ip |-> n.units,
     fd |-> StripZeros(<<n.milli \div 100, (n.milli \div 10) % 10, n.milli % 10>>)]

DigitAt(fd, i) == IF i <= Len(fd) THEN fd[i] ELSE 0

RECURSIVE FracValue(_, _)
\* The first k fractional digits read as a natural number.
FracValue(fd, k) ==
    IF k = 0 THEN 0 ELSE 10 * FracValue(fd, k - 1) + DigitAt(fd, k)

RECURSIVE FracDigits(_, _)
\* v written with exactly k digits.
FracDigits(v, k) ==
    IF k = 0 THEN <<>> ELSE Append(FracDigits(v \div 10, k - 1), v % 10)

\* The numeric(10,2) column reading a decimal text: round half away from zero
\* to NumericScale digits; a value that needs more than
\* NumericPrecision - NumericScale integer digits is a numeric field overflow.
NumericRound(txt) ==
    LET scaled == FracValue(txt.fd, NumericScale)
                    + (IF DigitAt(txt.fd, NumericScale + 1) >= 5 THEN 1 ELSE 0)
        carry  == scaled \div (10 ^ NumericScale)
    IN  [ip |-> txt.ip + carry, frac |-> scaled % (10 ^ NumericScale)]

NumericOverflows(txt) ==
    NumericRound(txt).ip >= 10 ^ (NumericPrecision - NumericScale)

\* The text the column gives back: always NumericScale fractional digits.
NumericColumn(txt) ==
    LET r == NumericRound(txt)
    IN  [ip |-> r.ip, fd |-> FracDigits(r.frac, NumericScale)]

\* parseInt of a decimal text: the fraction is dropped.
ParseInt(txt) == Num(txt.ip, 0)

\* parseFloat of a decimal text.
ParseFloat(txt) ==
    Num(txt.ip, 100 * DigitAt(txt.fd, 1) + 10 * DigitAt(txt.fd, 2) + DigitAt(txt.fd, 3))

(* ------------------------------- inputs ------------------------------- *)

InvoiceNumbers == {"INV-001", "INV-002"}

\* Amounts that pass z.number().positive(): 0.004, 0.005, 0.01, 1000.5,
\* 99999999.99 and 99999999.995.
AmountsDue ==
    {Num(0, 4), Num(0, 5), Num(0, 10), Num(1000, 500),
     Num(99999999, 990), Num(99999999, 995)}

BaseInput ==
    [invoice_number |-> "INV-001", client_name |-> "Acme",
     date_issued |-> 20240115, amount_due |-> Num(1000, 500),
     status |-> "Pending", description |-> "Consulting"]

ValidCreateInputs ==
    [invoice_number : InvoiceNumbers, client_name : {"Acme"},
     date_issued : {20240115}, amount_due : AmountsDue,
     status : invoiceStatusEnum, description : {"Consulting"}]

\* Requests that leave status out ("undefined" stands for the missing field).
DefaultStatusInputs ==
    {[BaseInput EXCEPT !.invoice_number = n, !.status = "undefined"] :
        n \in InvoiceNumbers}

\* A request that differs from the others in client, date, description and
\* amount (250, a whole number).
OtherClientInputs ==
    {[invoice_number |-> "INV-002", client_name |-> "Globex",
      date_issued |-> 20240120, amount_due |-> Num(250, 0),
      status |-> "Paid", description |-> "Design"]}

\* Requests that break one constraint of the schema each, and one that breaks all.
InvalidCreateInputs ==
    {[BaseInput EXCEPT !.invoice_number = ""],
     [BaseInput EXCEPT !.client_name = ""],
     [BaseInput EXCEPT !.description = ""],
     [BaseInput EXCEPT !.amount_due = Num(0, 0)],
     [BaseInput EXCEPT !.amount_due = Num(-1, 0)],
     [BaseInput EXCEPT !.status = "Void"],
     [invoice_number |-> "", client_name |-> "", date_issued |-> 20240115,
      amount_due |-> Num(0, 0), status |-> "Void", description |-> ""]}

RawCreateInputs ==
    ValidCreateInputs \cup DefaultStatusInputs \cup OtherClientInputs
        \cup InvalidCreateInputs

\* Ids of rows that exist, and one more than the table can ever hold.
UpdateIds == 1..(Cardinality(InvoiceNumbers) + 1)

RawUpdateInputs == [id : UpdateIds, status : {"Pending", "Paid", "Void"}]

(* ----------------------------- validation ----------------------------- *)

\* The length of a string, as far as min(1) tells lengths apart.
StrLen(s) == IF s = "" THEN 0 ELSE 1

\* createInvoiceInputSchema with amount_due: z.number(), without .positive().
createInvoiceInputSchemaAnyAmount(raw) ==
    (IF StrLen(raw.invoice_number) < MinLen THEN {"invoice_number"} ELSE {})
    \cup (IF StrLen(raw.client_name) < MinLen THEN {"client_name"} ELSE {})
    \cup (IF raw.status \notin invoiceStatusEnum \cup {"undefined"}
          THEN {"status"} ELSE {})
    \cup (IF StrLen(raw.description) < MinLen THEN {"description"} ELSE {})

\* The paths of the zod issues raised by createInvoiceInputSchema.
createInvoiceInputSchema(raw) ==
    (IF StrLen(raw.invoice_number) < MinLen THEN {"invoice_number"} ELSE {})
    \cup (IF StrLen(raw.client_name) < MinLen THEN {"client_name"} ELSE {})
    \cup (IF ~Positive(raw.amount_due) THEN {"amount_due"} ELSE {})
    \cup (IF raw.status \notin invoiceStatusEnum \cup {"undefined"}
          THEN {"status"} ELSE {})
    \cup (IF StrLen(raw.description) < MinLen THEN {"description"} ELSE {})

\* The parsed input: invoiceStatusEnum.default('Pending').
ParsedCreateInput(raw) ==
    [raw EXCEPT !.status = IF raw.status = "undefined" THEN "Pending" ELSE raw.status]

updateInvoiceStatusInputSchema(raw) ==
    IF raw.status \notin invoiceStatusEnum THEN {"status"} ELSE {}

(* ------------------------------ the store ----------------------------- *)

\* A row as the driver returns it: amount_due is a decimal text.
ToInvoice(row) == [row EXCEPT !.amount_due = ParseFloat(row.amount_due)]

Callers == 1..MaxCallers

\* A caller that has not called the router.
NotCalled == [pc |-> "idle", op |-> "none", input |-> <<>>, error |-> "none",
              result |-> <<>>, fresh |-> FALSE, order |-> 0, raced |-> FALSE]

\* The date new Date() gives the form.
Today == 20240201

\* The form as useState and the reset after a successful creation set it.
DefaultFormData ==
    [invoice_number |-> "", client_name |-> "", date_issued |-> Today,
     amount_due |-> Num(0, 0), status |-> "Pending", description |-> ""]

\* No response has been handled since the last thing the user did.
NoEvent == [op |-> "none", ok |-> TRUE, logged |-> ""]

InFlight == 1..MaxInFlight

\* A place for a request of the client that holds none.
NoRequest == [pc |-> "idle", op |-> "none", input |-> <<>>, error |-> "none",
              result |-> <<>>]

NoCall == [op |-> "none", input |-> <<>>, error |-> "none", result |-> <<>>,
           before |-> {}, chain |-> <<>>]

Init ==
    /\ invoicesTable = {}
    /\ id_seq = 1
    /\ now = 0
    /\ last = NoCall
    /\ inserted = <<>>
    /\ calls = [c \in Callers |-> NotCalled]
    /\ invoices = <<>>
    /\ isLoading = FALSE
    /\ isCreating = FALSE
    /\ formData = DefaultFormData
    /\ requests = [c \in InFlight |-> NoRequest]
    /\ lastEvent = NoEvent

\* The row db.insert(invoicesTable).values({...}) writes: amount_due goes
\* through toString and the numeric column, id comes from the serial sequence
\* and created_at from defaultNow().
NewRow(seq, t, input) ==
    [id             |-> seq,
     invoice_number |-> input.invoice_number,
     client_name    |-> input.client_name,
     date_issued    |-> input.date_issued,
     amount_due     |-> NumericColumn(NumberToString(input.amount_due)),
     status         |-> input.status,
     description    |-> input.description,
     created_at     |-> t]

\* createInvoiceHandler on a table without the unique constraint.
createInvoiceHandlerNoUnique(table, seq, t, input) ==
    IF NumericOverflows(NumberToString(input.amount_due))
    THEN [table |-> table, seq |-> seq, error |-> "NumericOverflow",
          result |-> <<>>]
    ELSE [table |-> table \cup {NewRow(seq, t, input)}, seq |-> seq + 1,
          error |-> "none", result |-> <<ToInvoice(NewRow(seq, t, input))>>]

\* createInvoiceHandler that leaves status to the column default.
createInvoiceHandlerDefaultStatus(table, seq, t, input) ==
    LET row == [NewRow(seq, t, input) EXCEPT !.status = "Pending"]
    IN  IF NumericOverflows(NumberToString(input.amount_due))
        THEN [table |-> table, seq |-> seq, error |-> "NumericOverflow",
              result |-> <<>>]
        ELSE IF \E r \in table : r.invoice_number = input.invoice_number
        THEN [table |-> table, seq |-> seq, error |-> "UniqueViolation",
              result |-> <<>>]
        ELSE [table |-> table \cup {row}, seq |-> seq + 1, error |-> "none",
              result |-> <<ToInvoice(row)>>]

\* createInvoiceHandler whose insert overwrites the row on a conflict
\* (ON CONFLICT (invoice_number) DO UPDATE) and so succeeds.
createInvoiceHandlerUpsert(table, seq, t, input) ==
    LET row == NewRow(seq, t, input)
        old == {r \in table : r.invoice_number = input.invoice_number}
    IN  IF NumericOverflows(NumberToString(input.amount_due))
        THEN [table |-> table, seq |-> seq, error |-> "NumericOverflow",
              result |-> <<>>]
        ELSE [table |-> (table \ old) \cup {row}, seq |-> seq + 1,
              error |-> "none", result |-> <<ToInvoice(row)>>]

\* The createInvoice handler for an input that passed validation: the insert
\* with .returning(), and the mapping of the returned row.  seq is the next
\* value of the serial sequence, t the reading of the clock.  The numeric
\* column rejects an amount it cannot hold, the unique constraint a second
\* row with the same invoice_number; either error is rethrown.
createInvoiceHandler(table, seq, t, input) ==
    LET row == NewRow(seq, t, input)
    IN  IF NumericOverflows(NumberToString(input.amount_due))
        THEN [table |-> table, seq |-> seq, error |-> "NumericOverflow",
              result |-> <<>>]
        ELSE IF \E r \in table : r.invoice_number = input.invoice_number
        THEN [table |-> table, seq |-> seq, error |-> "UniqueViolation",
              result |-> <<>>]
        ELSE [table |-> table \cup {row}, seq |-> seq + 1, error |-> "none",
              result |-> <<ToInvoice(row)>>]

\* The createInvoice procedure: .input(createInvoiceInputSchema), then the
\* handler.  The insert reads the clock, which has not gone back since the
\* last reading and may not have advanced; an insert that fails stores no
\* reading.
createInvoiceOutcomes(raw) ==
    IF createInvoiceInputSchema(raw) # {}
    THEN {[table |-> invoicesTable, seq |-> id_seq, now |-> now,
           error |-> "ValidationError", result |-> <<>>]}
    ELSE UNION {
           {[table |-> out.table, seq |-> out.seq,
             now |-> IF out.error = "none" THEN t ELSE now,
             error |-> out.error, result |-> out.result] :
               out \in {h \in {createInvoiceHandler(invoicesTable, id_seq, t,
                                                    ParsedCreateInput(raw))} :
                           h.error # "none" => t = now}} :
           t \in {u \in {now, now + 1} : u <= MaxClock}}

\* The call is recorded in last, a successful insert in inserted.
createInvoice(raw) ==
    \E out \in createInvoiceOutcomes(raw) :
        /\ invoicesTable' = out.table
        /\ id_seq' = out.seq
        /\ now' = out.now
        /\ last' = [op |-> "createInvoice", input |-> raw,
                    error |-> out.error, result |-> out.result,
                    before |-> invoicesTable, chain |-> <<>>]
        /\ inserted' =
             IF out.error = "none"
             THEN inserted @@
                  (raw.invoice_number :>
                      [id         |-> out.result[1].id,
                       created_at |-> out.result[1].created_at,
                       amount     |-> raw.amount_due])
             ELSE inserted

\* ORDER BY created_at ASC.
OrderByCreatedAtAsc(table) ==
    LET n == Cardinality(table)
    IN  {s \in [1..n -> table] :
            /\ \A i, j \in 1..n : i # j => s[i] # s[j]
            /\ \A i \in 1..n : i < n => s[i].created_at <= s[i + 1].created_at}

\* ORDER BY created_at DESC: every arrangement of the rows in which created_at
\* never increases; rows with equal created_at come in any order.
OrderByCreatedAtDesc(table) ==
    LET n == Cardinality(table)
    IN  {s \in [1..n -> table] :
            /\ \A i, j \in 1..n : i # j => s[i] # s[j]
            /\ \A i \in 1..n : i < n => s[i].created_at >= s[i + 1].created_at}

\* results.map(invoice => ({...invoice, amount_due: parseFloat(...)}))
MapToInvoices(s) == [i \in 1..Len(s) |-> ToInvoice(s[i])]

\* The getInvoices procedure: the handler, which takes no input and leaves
\* the store as it is.
getInvoicesOutcomes ==
    {[table |-> invoicesTable, seq |-> id_seq, now |-> now, error |-> "none",
      result |-> MapToInvoices(s)] : s \in OrderByCreatedAtDesc(invoicesTable)}

getInvoices ==
    /\ \E out \in getInvoicesOutcomes :
          last' = [op |-> "getInvoices", input |-> <<>>, error |-> out.error,
                   result |-> out.result, before |-> invoicesTable,
                   chain |-> <<>>]
    /\ UNCHANGED <<invoicesTable, id_seq, now, inserted>>

\* The placeholder declaration of updateInvoiceStatus: no store access, a
\* made-up Invoice for whatever id is asked for.
updateInvoiceStatusPlaceholder(table, input) ==
    [table |-> table, error |-> "none",
     result |-> <<[id |-> input.id, invoice_number |-> "PLACEHOLDER",
                   client_name |-> "PLACEHOLDER", date_issued |-> 0,
                   amount_due |-> Num(0, 0), status |-> input.status,
                   description |-> "PLACEHOLDER", created_at |-> 0]>>]

\* updateInvoiceStatusHandler returning the row as it was before the update.
updateInvoiceStatusHandlerStale(table, input) ==
    LET hit     == {r \in table : r.id = input.id}
        updated == {[r EXCEPT !.status = input.status] : r \in hit}
    IN  IF hit = {}
        THEN [table |-> table, error |-> "NotFound", result |-> <<>>]
        ELSE [table |-> (table \ hit) \cup updated, error |-> "none",
              result |-> <<ToInvoice(CHOOSE r \in hit : TRUE)>>]

\* updateInvoiceStatusHandler that can only mark an invoice as paid.
updateInvoiceStatusHandlerPaidOnly(table, input) ==
    LET hit     == {r \in table : r.id = input.id}
        updated == {[r EXCEPT !.status = "Paid"] : r \in hit}
    IN  IF hit = {}
        THEN [table |-> table, error |-> "NotFound", result |-> <<>>]
        ELSE [table |-> (table \ hit) \cup updated, error |-> "none",
              result |-> <<ToInvoice(CHOOSE r \in updated : TRUE)>>]

\* updateInvoiceStatusHandler that also stamps the row with a new created_at.
updateInvoiceStatusHandlerRestamp(table, input) ==
    LET hit     == {r \in table : r.id = input.id}
        updated == {[r EXCEPT !.status = input.status,
                              !.created_at = r.created_at + 1] : r \in hit}
    IN  IF hit = {}
        THEN [table |-> table, error |-> "NotFound", result |-> <<>>]
        ELSE [table |-> (table \ hit) \cup updated, error |-> "none",
              result |-> <<ToInvoice(CHOOSE r \in updated : TRUE)>>]

\* updateInvoiceStatusHandler that drops the row of an invoice set to Paid.
updateInvoiceStatusHandlerDelete(table, input) ==
    LET hit     == {r \in table : r.id = input.id}
        updated == {[r EXCEPT !.status = input.status] : r \in hit}
    IN  IF hit = {}
        THEN [table |-> table, error |-> "NotFound", result |-> <<>>]
        ELSE [table |-> IF input.status = "Paid" THEN table \ hit
                        ELSE (table \ hit) \cup updated,
              error |-> "none",
              result |-> <<ToInvoice(CHOOSE r \in updated : TRUE)>>]

\* updateInvoiceStatusHandler that refuses to change an invoice already Paid.
updateInvoiceStatusHandlerGuarded(table, input) ==
    LET hit     == {r \in table : r.id = input.id}
        updated == {[r EXCEPT !.status = input.status] : r \in hit}
    IN  IF hit = {}
        THEN [table |-> table, error |-> "NotFound", result |-> <<>>]
        ELSE IF \E r \in hit : r.status = "Paid"
        THEN [table |-> table, error |-> "InvalidTransition", result |-> <<>>]
        ELSE [table |-> (table \ hit) \cup updated, error |-> "none",
              result |-> <<ToInvoice(CHOOSE r \in updated : TRUE)>>]

\* updateInvoiceStatusHandler whose UPDATE has no where clause.
updateInvoiceStatusHandlerNoWhere(table, input) ==
    LET hit     == {r \in table : r.id = input.id}
        updated == {[r EXCEPT !.status = input.status] : r \in hit}
    IN  IF hit = {}
        THEN [table |-> table, error |-> "NotFound", result |-> <<>>]
        ELSE [table |-> {[r EXCEPT !.status = input.status] : r \in table},
              error |-> "none",
              result |-> <<ToInvoice(CHOOSE r \in updated : TRUE)>>]

\* updateInvoiceStatusHandler that updates the row only while it is Pending
\* (where id = ... and status = 'Pending').
updateInvoiceStatusHandlerIfPending(table, input) ==
    LET hit     == {r \in table : r.id = input.id /\ r.status = "Pending"}
        updated == {[r EXCEPT !.status = input.status] : r \in hit}
    IN  IF hit = {}
        THEN [table |-> table, error |-> "NotFound", result |-> <<>>]
        ELSE [table |-> (table \ hit) \cup updated, error |-> "none",
              result |-> <<ToInvoice(CHOOSE r \in updated : TRUE)>>]

\* db.update(invoicesTable).set({status}).where(eq(id)).returning().execute(),
\* the not-found check and the mapping of the returned row.
updateInvoiceStatusHandler(table, input) ==
    LET hit     == {r \in table : r.id = input.id}
        updated == {[r EXCEPT !.status = input.status] : r \in hit}
    IN  IF hit = {}
        THEN [table |-> table, error |-> "NotFound", result |-> <<>>]
        ELSE [table |-> (table \ hit) \cup updated, error |-> "none",
              result |-> <<ToInvoice(CHOOSE r \in updated : TRUE)>>]

\* The updateInvoiceStatus procedure: .input(updateInvoiceStatusInputSchema),
\* then the handler.
updateInvoiceStatusOutcomes(raw) ==
    {[table |-> out.table, seq |-> id_seq, now |-> now, error |-> out.error,
      result |-> out.result] :
        out \in {IF updateInvoiceStatusInputSchema(raw) # {}
                 THEN [table |-> invoicesTable, error |-> "ValidationError",
                       result |-> <<>>]
                 ELSE updateInvoiceStatusHandler(invoicesTable, raw)}}

\* chain keeps the table as it was before the call that came just before this
\* one, when that call set the same invoice to Paid.
updateInvoiceStatus(raw) ==
    \E out \in updateInvoiceStatusOutcomes(raw) :
        /\ invoicesTable' = out.table
        /\ last' = [op |-> "updateInvoiceStatus", input |-> raw,
                    error |-> out.error, result |-> out.result,
                    before |-> invoicesTable,
                    chain |-> IF /\ last.op = "updateInvoiceStatus"
                                 /\ last.error = "none"
                                 /\ last.input.status = "Paid"
                                 /\ last.input.id = raw.id
                              THEN <<last.before>>
                              ELSE <<>>]
        /\ UNCHANGED <<id_seq, now, inserted>>

Next ==
    \/ \E raw \in RawCreateInputs :
          createInvoice(raw) /\ UNCHANGED <<calls, clientVars>>
    \/ getInvoices /\ UNCHANGED <<calls, clientVars>>
    \/ \E raw \in RawUpdateInputs :
          updateInvoiceStatus(raw) /\ UNCHANGED <<calls, clientVars>>

Spec == Init /\ [][Next]_vars

(* -------------------------- overlapping calls ------------------------- *)

\* The calls the callers make: two different requests for INV-001, one for
\* INV-002, status updates of the first two ids, and the listing.
ConcurrentRequests ==
    {[op |-> "createInvoice", input |-> raw] :
        raw \in {BaseInput,
                 [BaseInput EXCEPT !.amount_due = Num(0, 10), !.status = "Paid"]}
                    \cup OtherClientInputs}
    \cup {[op |-> "updateInvoiceStatus", input |-> raw] :
            raw \in [id : {1, 2}, status : invoiceStatusEnum]}
    \cup {[op |-> "getInvoices", input |-> <<>>]}

\* A caller sends a request; callers are numbered in the order their
\* requests arrive.  The tRPC server takes each request as it arrives, so
\* any number of calls can be under way; fresh tells whether the
\* store, at this moment, has no invoice with the number to create, and for
\* an update whether it has the invoice to update.
Call(c, req) ==
    /\ calls[c].pc = "idle"
    /\ \A d \in Callers : d < c => calls[d].pc # "idle"
    /\ calls' = [calls EXCEPT ![c] =
                   [pc |-> "pending", op |-> req.op, input |-> req.input,
                    error |-> "none", result |-> <<>>,
                    fresh |-> CASE req.op = "createInvoice" ->
                                     \A r \in invoicesTable :
                                        r.invoice_number # req.input.invoice_number
                                [] req.op = "updateInvoiceStatus" ->
                                     \E r \in invoicesTable : r.id = req.input.id
                                [] OTHER -> FALSE,
                    order |-> 0, raced |-> FALSE]]
    /\ UNCHANGED <<serverVars, clientVars>>

\* The one statement of a handler (insert, select or update, each awaited
\* once) is executed by the store, which runs one statement at a time; the
\* outcome is what the caller gets.  order numbers the statements as the
\* store ran them, raced tells that another call was under way.
Commit(c) ==
    /\ calls[c].pc = "pending"
    /\ \/ calls[c].op = "createInvoice" /\ createInvoice(calls[c].input)
       \/ calls[c].op = "getInvoices" /\ getInvoices
       \/ calls[c].op = "updateInvoiceStatus"
             /\ updateInvoiceStatus(calls[c].input)
    /\ calls' = [calls EXCEPT ![c] =
                   [@ EXCEPT !.pc = "done", !.error = last'.error,
                             !.result = last'.result,
                             !.order = 1 + Cardinality(
                                 {d \in Callers : calls[d].pc = "done"}),
                             !.raced = \E d \in Callers \ {c} :
                                          calls[d].pc = "pending"]]

NextConcurrent ==
    \/ \E c \in Callers : \E req \in ConcurrentRequests : Call(c, req)
    \/ \E c \in Callers : Commit(c) /\ UNCHANGED clientVars

SpecConcurrent == Init /\ [][NextConcurrent]_vars

(* ------------------------------ the client ---------------------------- *)

\* What the user types into the form: an invoice that passes validation.
\* The form has no control for status, which stays Pending.
FormInputs == {BaseInput}

\* The request of the user of another client of the same service.
OtherWriterCreates == OtherClientInputs

\* The application after it was mounted: the state hooks hold their initial
\* values and the effect has called loadInvoices, whose request is under way.
InitClient ==
    /\ invoicesTable = {}
    /\ id_seq = 1
    /\ now = 0
    /\ last = NoCall
    /\ inserted = <<>>
    /\ calls = [c \in Callers |-> NotCalled]
    /\ invoices = <<>>
    /\ isLoading = TRUE
    /\ isCreating = FALSE
    /\ formData = DefaultFormData
    /\ requests = [c \in InFlight |->
                     IF c = 1
                     THEN [NoRequest EXCEPT !.pc = "pending", !.op = "getInvoices"]
                     ELSE NoRequest]
    /\ lastEvent = NoEvent

\* The request the client sends takes the first place that is free.
Free(c) ==
    /\ requests[c].pc = "idle"
    /\ \A d \in InFlight : d < c => requests[d].pc # "idle"

Send(c, op, input) ==
    requests' = [requests EXCEPT ![c] =
                   [NoRequest EXCEPT !.pc = "pending", !.op = op, !.input = input]]

\* The onChange handlers of the form fields, each setFormData(prev => ({...prev,
\* field: value})): the user brings the form to one of FormInputs.
setFormData(v) ==
    /\ formData # v
    /\ formData' = v
    /\ lastEvent' = NoEvent
    /\ UNCHANGED <<serverVars, calls, invoices, isLoading, isCreating, requests>>

\* The Refresh button (disabled while isLoading): loadInvoices up to its await.
loadInvoices ==
    /\ ~isLoading
    /\ \E c \in InFlight : Free(c) /\ Send(c, "getInvoices", <<>>)
    /\ isLoading' = TRUE
    /\ lastEvent' = NoEvent
    /\ UNCHANGED <<serverVars, calls, invoices, isCreating, formData>>

\* The form is submitted (the submit button is disabled while isCreating,
\* the browser holds the submission back while a required field is empty):
\* handleCreateInvoice up to its await.
handleCreateInvoice ==
    /\ ~isCreating
    /\ formData.invoice_number # ""
    /\ formData.client_name # ""
    /\ formData.description # ""
    /\ \E c \in InFlight : Free(c) /\ Send(c, "createInvoice", formData)
    /\ isCreating' = TRUE
    /\ lastEvent' = NoEvent
    /\ UNCHANGED <<serverVars, calls, invoices, isLoading, formData>>

\* The status Select of the i-th card: handleStatusUpdate(invoice.id, value)
\* up to its await.
handleStatusUpdate(i, newStatus) ==
    /\ i \in 1..Len(invoices)
    /\ \E c \in InFlight :
          Free(c) /\ Send(c, "updateInvoiceStatus",
                          [id |-> invoices[i].id, status |-> newStatus])
    /\ lastEvent' = NoEvent
    /\ UNCHANGED <<serverVars, calls, invoices, isLoading, isCreating, formData>>

\* The outcomes the service can give a request: the procedure's validation
\* and handler, run on the store as it is now.
Outcomes(req) ==
    CASE req.op = "createInvoice" -> createInvoiceOutcomes(req.input)
      [] req.op = "getInvoices" -> getInvoicesOutcomes
      [] req.op = "updateInvoiceStatus" -> updateInvoiceStatusOutcomes(req.input)

\* The service runs a request of the client.
Serve(c) ==
    /\ requests[c].pc = "pending"
    /\ \E out \in Outcomes(requests[c]) :
          /\ invoicesTable' = out.table
          /\ id_seq' = out.seq
          /\ now' = out.now
          /\ requests' = [requests EXCEPT ![c] =
                            [@ EXCEPT !.pc = "done", !.error = out.error,
                                      !.result = out.result]]
    /\ UNCHANGED <<last, inserted, calls, invoices, isLoading, isCreating,
                   formData, lastEvent>>

\* The service cannot be reached or the store is down: the request fails
\* without having run.
Unavailable(c) ==
    /\ requests[c].pc = "pending"
    /\ requests' = [requests EXCEPT ![c] =
                      [@ EXCEPT !.pc = "done", !.error = "Unavailable"]]
    /\ UNCHANGED <<serverVars, calls, invoices, isLoading, isCreating,
                   formData, lastEvent>>

\* What is recorded when the response of request c is handled; logged is the
\* message given to console.error.
Event(c, message) ==
    [op |-> requests[c].op, ok |-> requests[c].error = "none",
     logged |-> IF requests[c].error = "none" THEN "" ELSE message]

\* loadInvoices after its await: setInvoices(result), or the catch block,
\* and the finally block.
loadInvoicesSettled(c) ==
    /\ requests[c].pc = "done"
    /\ requests[c].op = "getInvoices"
    /\ invoices' = IF requests[c].error = "none" THEN requests[c].result
                   ELSE invoices
    /\ isLoading' = FALSE
    /\ requests' = [requests EXCEPT ![c] = NoRequest]
    /\ lastEvent' = Event(c, "Failed to load invoices:")
    /\ UNCHANGED <<serverVars, calls, isCreating, formData>>

\* handleCreateInvoiceSettled with the form reset moved to the finally block.
handleCreateInvoiceSettledResetAlways(c) ==
    /\ requests[c].pc = "done"
    /\ requests[c].op = "createInvoice"
    /\ invoices' = IF requests[c].error = "none"
                   THEN <<requests[c].result[1]>> \o invoices
                   ELSE invoices
    /\ formData' = DefaultFormData
    /\ isCreating' = FALSE
    /\ requests' = [requests EXCEPT ![c] = NoRequest]
    /\ lastEvent' = Event(c, "Failed to create invoice:")
    /\ UNCHANGED <<serverVars, calls, isLoading>>

\* handleCreateInvoice after its await: setInvoices(prev => [response,
\* ...prev]) and the form reset, or the catch block, and the finally block.
handleCreateInvoiceSettled(c) ==
    /\ requests[c].pc = "done"
    /\ requests[c].op = "createInvoice"
    /\ IF requests[c].error = "none"
       THEN /\ invoices' = <<requests[c].result[1]>> \o invoices
            /\ formData' = DefaultFormData
       ELSE UNCHANGED <<invoices, formData>>
    /\ isCreating' = FALSE
    /\ requests' = [requests EXCEPT ![c] = NoRequest]
    /\ lastEvent' = Event(c, "Failed to create invoice:")
    /\ UNCHANGED <<serverVars, calls, isLoading>>

\* handleStatusUpdateSettled whose map does not compare ids.
handleStatusUpdateSettledEveryEntry(c) ==
    /\ requests[c].pc = "done"
    /\ requests[c].op = "updateInvoiceStatus"
    /\ invoices' = IF requests[c].error = "none"
                   THEN [i \in 1..Len(invoices) |-> requests[c].result[1]]
                   ELSE invoices
    /\ requests' = [requests EXCEPT ![c] = NoRequest]
    /\ lastEvent' = Event(c, "Failed to update invoice status:")
    /\ UNCHANGED <<serverVars, calls, isLoading, isCreating, formData>>

\* handleStatusUpdate after its await: setInvoices(prev => prev.map(invoice
\* => invoice.id === invoiceId ? updatedInvoice : invoice)), or the catch
\* block.
handleStatusUpdateSettled(c) ==
    /\ requests[c].pc = "done"
    /\ requests[c].op = "updateInvoiceStatus"
    /\ invoices' = IF requests[c].error = "none"
                   THEN [i \in 1..Len(invoices) |->
                           IF invoices[i].id = requests[c].input.id
                           THEN requests[c].result[1]
                           ELSE invoices[i]]
                   ELSE invoices
    /\ requests' = [requests EXCEPT ![c] = NoRequest]
    /\ lastEvent' = Event(c, "Failed to update invoice status:")
    /\ UNCHANGED <<serverVars, calls, isLoading, isCreating, formData>>

\* Another client of the same service has an invoice created.
OtherWriter ==
    /\ \E raw \in OtherWriterCreates : \E out \in createInvoiceOutcomes(raw) :
          /\ out.error = "none"
          /\ invoicesTable' = out.table
          /\ id_seq' = out.seq
          /\ now' = out.now
    /\ UNCHANGED <<last, inserted, calls, clientVars>>

NextClient ==
    \/ \E v \in FormInputs : setFormData(v)
    \/ loadInvoices
    \/ handleCreateInvoice
    \/ \E i \in 1..Len(invoices) : \E newStatus \in invoiceStatusEnum :
          handleStatusUpdate(i, newStatus)
    \/ \E c \in InFlight : Serve(c)
    \/ \E c \in InFlight : Unavailable(c)
    \/ \E c \in InFlight : loadInvoicesSettled(c)
    \/ \E c \in InFlight : handleCreateInvoiceSettled(c)
    \/ \E c \in InFlight : handleStatusUpdateSettled(c)
    \/ OtherWriter

SpecClient == InitClient /\ [][NextClient]_vars

(* ------------------------------ properties ---------------------------- *)

CreateCalled == last.op = "createInvoice"

UpdateCalled == last.op = "updateInvoiceStatus"

ListCalled == last.op = "getInvoices"

Succeeded == last.error = "none"

\* The request breaks the creation contract as the specification words it.
BreaksCreateContract(raw) ==
    \/ raw.invoice_number = ""
    \/ raw.client_name = ""
    \/ raw.description = ""
    \/ raw.amount_due.units < 0
    \/ (raw.amount_due.units = 0 /\ raw.amount_due.milli = 0)
    \/ raw.status \notin {"Pending", "Paid", "undefined"}

\* n rounded half up to two decimal places, by arithmetic on the number.
Round2(n) ==
    LET cents == (n.milli + 5) \div 10
    IN  IF cents = 100 THEN Num(n.units + 1, 0) ELSE Num(n.units, 10 * cents)

TwoDecimals(n) == n.milli % 10 = 0

\* The rounded amount is at most 99999999.99.
FitsColumn(n) == Round2(n).units <= 99999999

RequestedStatus(raw) == IF raw.status = "undefined" THEN "Pending" ELSE raw.status

RowsNumbered(table, number) == {r \in table : r.invoice_number = number}

RowsWithId(table, id) == {r \in table : r.id = id}

\* C1: no two persisted invoices share an invoice_number, and a createInvoice
\* whose invoice_number is already persisted fails, creates no row and leaves
\* exactly one row for that number; when the request passes validation and its
\* amount fits the column, the failure is the uniqueness error.
C1_UniqueInvoiceNumber ==
    /\ \A r1, r2 \in invoicesTable :
          r1.invoice_number = r2.invoice_number => r1 = r2
    /\ (CreateCalled /\ RowsNumbered(last.before, last.input.invoice_number) # {})
          => /\ ~Succeeded
             /\ last.result = <<>>
             /\ invoicesTable = last.before
             /\ Cardinality(RowsNumbered(invoicesTable, last.input.invoice_number)) = 1
             /\ (~BreaksCreateContract(last.input) /\ FitsColumn(last.input.amount_due))
                   => last.error = "UniqueViolation"

\* A create was refused for its invoice_number while another invoice is stored too.
C1_Witness ==
    /\ CreateCalled
    /\ last.error = "UniqueViolation"
    /\ Cardinality(invoicesTable) = 2

\* C2 as claimed: every valid creation input whose invoice_number is free gives
\* an Invoice whose six submitted fields equal the input, amount_due included.
C2_Original ==
    (/\ CreateCalled
     /\ ~BreaksCreateContract(last.input)
     /\ RowsNumbered(last.before, last.input.invoice_number) = {})
      => /\ Succeeded
         /\ Len(last.result) = 1
         /\ last.result[1].invoice_number = last.input.invoice_number
         /\ last.result[1].client_name = last.input.client_name
         /\ last.result[1].date_issued = last.input.date_issued
         /\ last.result[1].amount_due = last.input.amount_due
         /\ last.result[1].status = RequestedStatus(last.input)
         /\ last.result[1].description = last.input.description

\* C2 (amended): for a valid creation input whose invoice_number is free and
\* whose amount, rounded to two decimals, is at most 99999999.99, createInvoice
\* returns an Invoice whose invoice_number, client_name, date_issued, status
\* and description equal the input and whose amount_due is the input rounded
\* half up to two decimals (the input itself when it has at most two), with an
\* id no stored row had and created_at the clock reading, and exactly that row
\* is added to the store; with a larger amount the call fails and adds nothing.
C2_CreateReturnsInput ==
    (/\ CreateCalled
     /\ ~BreaksCreateContract(last.input)
     /\ RowsNumbered(last.before, last.input.invoice_number) = {})
      => IF FitsColumn(last.input.amount_due)
         THEN /\ Succeeded
              /\ Len(last.result) = 1
              /\ last.result[1].invoice_number = last.input.invoice_number
              /\ last.result[1].client_name = last.input.client_name
              /\ last.result[1].date_issued = last.input.date_issued
              /\ last.result[1].amount_due = Round2(last.input.amount_due)
              /\ TwoDecimals(last.input.amount_due)
                    => last.result[1].amount_due = last.input.amount_due
              /\ last.result[1].status = RequestedStatus(last.input)
              /\ last.result[1].description = last.input.description
              /\ RowsWithId(last.before, last.result[1].id) = {}
              /\ last.result[1].created_at = now
              /\ \E row \in invoicesTable :
                    /\ ToInvoice(row) = last.result[1]
                    /\ invoicesTable = last.before \cup {row}
                    /\ row \notin last.before
         ELSE /\ ~Succeeded
              /\ last.result = <<>>
              /\ invoicesTable = last.before

\* A second invoice was created as Paid from an amount with three decimals.
C2_Witness ==
    /\ CreateCalled
    /\ Succeeded
    /\ last.input.amount_due = Num(0, 5)
    /\ last.input.status = "Paid"
    /\ last.before # {}

\* C3: updateInvoiceStatus for an id no persisted invoice has fails with the
\* not-found error, returns no Invoice and leaves every row unchanged.
C3_UpdateMissingId ==
    (/\ UpdateCalled
     /\ last.input.status \in {"Pending", "Paid"}
     /\ RowsWithId(last.before, last.input.id) = {})
      => /\ last.error = "NotFound"
         /\ last.result = <<>>
         /\ invoicesTable = last.before

\* An update asked for a missing id while the store held invoices.
C3_Witness ==
    /\ UpdateCalled
    /\ last.error = "NotFound"
    /\ invoicesTable # {}

\* C4: a successful updateInvoiceStatus(id, newStatus) changes only the status
\* of the invoice with that id: the stored row and the returned Invoice keep
\* id, invoice_number, client_name, date_issued, amount_due, description and
\* created_at, and their status is newStatus.
C4_UpdateOnlyStatus ==
    (UpdateCalled /\ Succeeded)
      => \E old \in last.before :
            /\ old.id = last.input.id
            /\ RowsWithId(invoicesTable, last.input.id)
                  = {[old EXCEPT !.status = last.input.status]}
            /\ Len(last.result) = 1
            /\ last.result[1].id = old.id
            /\ last.result[1].invoice_number = old.invoice_number
            /\ last.result[1].client_name = old.client_name
            /\ last.result[1].date_issued = old.date_issued
            /\ last.result[1].amount_due = ToInvoice(old).amount_due
            /\ last.result[1].description = old.description
            /\ last.result[1].created_at = old.created_at
            /\ last.result[1].status = last.input.status

\* An update changed the status of an invoice.
C4_Witness ==
    /\ UpdateCalled
    /\ Succeeded
    /\ \E old \in last.before :
          old.id = last.input.id /\ old.status # last.input.status

\* The result lists every persisted row exactly once, as an Invoice.
ListsEveryRowOnce ==
    /\ Len(last.result) = Cardinality(invoicesTable)
    /\ \A r \in invoicesTable :
          Cardinality({i \in 1..Len(last.result) : last.result[i] = ToInvoice(r)}) = 1

\* C5 as claimed: getInvoices returns one entry per persisted row, the empty
\* sequence for an empty store, in reverse insertion order (ids come from the
\* serial sequence, so a later insert has the larger id).
C5_Original ==
    ListCalled
      => /\ ListsEveryRowOnce
         /\ (invoicesTable = {} => last.result = <<>>)
         /\ \A i, j \in 1..Len(last.result) :
               i < j => last.result[i].id > last.result[j].id

\* C5 (amended): getInvoices returns the empty sequence for an empty store and
\* otherwise exactly one entry per persisted row, ordered by created_at, newest
\* first; invoices inserted at different clock readings appear in reverse
\* insertion order, invoices with the same created_at in either order.
C5_ListNewestFirst ==
    ListCalled
      => /\ ListsEveryRowOnce
         /\ (invoicesTable = {} => last.result = <<>>)
         /\ \A i, j \in 1..Len(last.result) :
               i < j => /\ last.result[i].created_at >= last.result[j].created_at
                        /\ last.result[i].created_at # last.result[j].created_at
                              => last.result[i].id > last.result[j].id

\* Two invoices inserted at different clock readings were listed.
C5_Witness ==
    /\ ListCalled
    /\ Len(last.result) = 2
    /\ last.result[1].created_at > last.result[2].created_at

\* C6: the amount_due a successful createInvoice, getInvoices or
\* updateInvoiceStatus returns for an invoice, and the stored amount read as a
\* number, is the amount submitted at creation rounded to two decimal places;
\* a submitted amount with at most two decimals comes back exactly.
C6_AmountRoundTrip ==
    /\ \A r \in invoicesTable :
          /\ ToInvoice(r).amount_due = Round2(inserted[r.invoice_number].amount)
          /\ TwoDecimals(inserted[r.invoice_number].amount)
                => ToInvoice(r).amount_due = inserted[r.invoice_number].amount
    /\ Succeeded
          => \A i \in 1..Len(last.result) :
                LET submitted == inserted[last.result[i].invoice_number].amount
                IN  /\ last.result[i].amount_due = Round2(submitted)
                    /\ TwoDecimals(submitted) => last.result[i].amount_due = submitted

\* Invoices of 0.01 and of 99999999.99 were both read back through getInvoices.
C6_Witness ==
    /\ ListCalled
    /\ \E i, j \in 1..Len(last.result) :
          /\ last.result[i].amount_due = Num(0, 10)
          /\ inserted[last.result[i].invoice_number].amount = Num(0, 10)
          /\ last.result[j].amount_due = Num(99999999, 990)

\* C7 as claimed: every persisted amount_due is strictly positive in its
\* stored two-decimal form.
C7_StoredAmountPositive ==
    \A r \in invoicesTable :
        r.amount_due.ip > 0 \/ FracValue(r.amount_due.fd, NumericScale) > 0

\* C8: a createInvoice request with an empty invoice_number, client_name or
\* description, an amount_due <= 0 or a status other than Pending/Paid is
\* rejected with a validation error, never with an error of the store, also
\* when its invoice_number is already stored; no row is inserted and the
\* store is as it was.
C8_InvalidCreateRejected ==
    (CreateCalled /\ BreaksCreateContract(last.input))
      => /\ last.error = "ValidationError"
         /\ last.result = <<>>
         /\ invoicesTable = last.before

\* A request with amount_due 0 and a stored invoice_number was rejected.
C8_Witness ==
    /\ CreateCalled
    /\ last.error = "ValidationError"
    /\ last.input.amount_due = Num(0, 0)
    /\ RowsNumbered(invoicesTable, last.input.invoice_number) # {}

\* C9: updateInvoiceStatus(id, 'Paid') followed by updateInvoiceStatus(id,
\* 'Pending') leaves the invoice Pending, every other field of it as before
\* the two updates, and the rest of the store as it was.
C9_PaidThenPending ==
    (/\ UpdateCalled
     /\ Succeeded
     /\ last.input.status = "Pending"
     /\ last.chain # <<>>)
      => \E orig \in last.chain[1] :
            /\ orig.id = last.input.id
            /\ invoicesTable
                  = (last.chain[1] \ {orig}) \cup {[orig EXCEPT !.status = "Pending"]}
            /\ last.result = <<ToInvoice([orig EXCEPT !.status = "Pending"])>>

\* An invoice created as Paid was set to Paid and then to Pending.
C9_Witness ==
    /\ UpdateCalled
    /\ Succeeded
    /\ last.input.status = "Pending"
    /\ last.chain # <<>>
    /\ \E orig \in last.chain[1] : orig.id = last.input.id /\ orig.status = "Paid"

\* C10: every persisted invoice has the id and the created_at it was given
\* when it was inserted, and distinct invoices have distinct ids.
C10_SystemFieldsFixed ==
    /\ \A r \in invoicesTable :
          /\ r.invoice_number \in DOMAIN inserted
          /\ r.id = inserted[r.invoice_number].id
          /\ r.created_at = inserted[r.invoice_number].created_at
    /\ \A r1, r2 \in invoicesTable : r1.id = r2.id => r1 = r2
    /\ Succeeded
          => \A i \in 1..Len(last.result) :
                /\ last.result[i].id = inserted[last.result[i].invoice_number].id
                /\ last.result[i].created_at
                      = inserted[last.result[i].invoice_number].created_at

\* Two invoices are stored, and the older one has just had its status changed.
C10_Witness ==
    /\ UpdateCalled
    /\ Succeeded
    /\ Cardinality(invoicesTable) = 2
    /\ \E old \in last.before :
          old.id = last.input.id /\ old.status # last.input.status
    /\ \E r \in invoicesTable : r.id > last.input.id

\* C11: no operation deletes an invoice: every invoice a createInvoice has
\* inserted is still in the store after any further calls, whether they
\* succeed or fail, and every getInvoices result lists it.
C11_NeverDeleted ==
    \A n \in DOMAIN inserted :
        /\ \E r \in invoicesTable :
              r.invoice_number = n /\ r.id = inserted[n].id
        /\ ListCalled
              => \E i \in 1..Len(last.result) :
                    /\ last.result[i].invoice_number = n
                    /\ last.result[i].id = inserted[n].id

\* Two invoices were inserted, one is Pending and one Paid, and a getInvoices
\* has just listed the store.
C11_Witness ==
    /\ ListCalled
    /\ Cardinality(DOMAIN inserted) = 2
    /\ \E r1, r2 \in invoicesTable : r1.status # r2.status

\* C14: updateInvoiceStatus on an existing invoice succeeds whatever the
\* current and the requested status are, Pending or Paid each: no current
\* status makes the update fail, and the row ends with the requested status.
C14_AnyTransition ==
    \A id \in UpdateIds : \A current, requested \in invoiceStatusEnum :
        (/\ UpdateCalled
         /\ last.input = [id |-> id, status |-> requested]
         /\ \E r \in last.before : r.id = id /\ r.status = current)
          => /\ Succeeded
             /\ \E r \in invoicesTable : r.id = id /\ r.status = requested

\* An invoice that was Paid has been set to Paid again.
C14_Witness ==
    /\ UpdateCalled
    /\ Succeeded
    /\ last.input.status = "Paid"
    /\ \E r \in last.before : r.id = last.input.id /\ r.status = "Paid"

\* C18: a successful updateInvoiceStatus(id, newStatus) leaves every row with
\* another id exactly as it was and does not change the number of rows.
C18_OtherRowsUntouched ==
    (UpdateCalled /\ Succeeded)
      => /\ {r \in invoicesTable : r.id # last.input.id}
               = {r \in last.before : r.id # last.input.id}
         /\ Cardinality(invoicesTable) = Cardinality(last.before)

\* An update succeeded while another invoice had a status other than the
\* requested one.
C18_Witness ==
    /\ UpdateCalled
    /\ Succeeded
    /\ \E r \in invoicesTable :
          r.id # last.input.id /\ r.status # last.input.status

\* The finished createInvoice calls for number n that were sent while the
\* store had no invoice with that number: all of them were under way when the
\* first of them reached the store.
RacingCreates(n) ==
    {c \in Callers : /\ calls[c].pc = "done"
                     /\ calls[c].op = "createInvoice"
                     /\ calls[c].input.invoice_number = n
                     /\ calls[c].fresh}

\* C12: of the createInvoice calls with one invoice_number that overlap on a
\* store without that number, exactly one succeeds, every other fails with
\* the duplicate error, and one row with that number is persisted, in
\* whatever order the store runs the inserts.
C12_OneCreateWins ==
    \A n \in InvoiceNumbers :
        RacingCreates(n) # {}
          => /\ \E w \in RacingCreates(n) :
                   /\ calls[w].error = "none"
                   /\ \A c \in RacingCreates(n) \ {w} :
                         calls[c].error = "UniqueViolation"
                   /\ RowsNumbered(invoicesTable, n)
                         = {r \in invoicesTable : r.id = calls[w].result[1].id}
             /\ Cardinality(RowsNumbered(invoicesTable, n)) = 1

\* Two different requests for INV-001 overlapped; the one the store ran
\* second was refused.
C12_Witness ==
    \E c, d \in RacingCreates("INV-001") :
        /\ calls[c].input # calls[d].input
        /\ calls[c].raced
        /\ calls[c].order < calls[d].order
        /\ calls[d].error = "UniqueViolation"

\* The finished updateInvoiceStatus calls for id that were sent while the
\* store had an invoice with that id.
UpdatesOf(id) ==
    {c \in Callers : /\ calls[c].pc = "done"
                     /\ calls[c].op = "updateInvoiceStatus"
                     /\ calls[c].input.id = id
                     /\ calls[c].fresh}

\* The finished updateInvoiceStatus calls for id that changed the store.
AppliedUpdatesOf(id) ==
    {c \in Callers : /\ calls[c].pc = "done"
                     /\ calls[c].op = "updateInvoiceStatus"
                     /\ calls[c].input.id = id
                     /\ calls[c].error = "none"}

\* C13: overlapping updateInvoiceStatus calls for one existing invoice all
\* succeed; the persisted status is the one requested by the update the store
\* ran last, and each update returns the invoice as created but for status.
C13_LastWriteWins ==
    \A id \in {1, 2} :
        UpdatesOf(id) # {}
          => /\ UpdatesOf(id) \subseteq AppliedUpdatesOf(id)
             /\ \E w \in AppliedUpdatesOf(id) :
                   /\ \A c \in AppliedUpdatesOf(id) :
                         calls[c].order <= calls[w].order
                   /\ \E r \in invoicesTable :
                         r.id = id /\ r.status = calls[w].input.status
             /\ \A c \in UpdatesOf(id) : \A k \in Callers :
                   (/\ calls[k].pc = "done"
                    /\ calls[k].op = "createInvoice"
                    /\ calls[k].error = "none"
                    /\ calls[k].result[1].id = id)
                     => calls[c].result[1]
                          = [calls[k].result[1] EXCEPT
                                !.status = calls[c].input.status]

\* Two updates of invoice 1 with different statuses overlapped.
C13_Witness ==
    \E c, d \in UpdatesOf(1) :
        /\ calls[c].input.status # calls[d].input.status
        /\ calls[c].raced
        /\ calls[c].order < calls[d].order

\* The response of request c is handled in this step.
Settles(c) == requests[c].pc = "done" /\ requests'[c].pc = "idle"

\* C15: handling a failed load, create or status-update response leaves the
\* local invoice list and the form values exactly as they were and reports
\* the failure with console.error.
C15_FailureLeavesState ==
    [][\A c \in InFlight :
          (Settles(c) /\ requests[c].error # "none")
            => /\ invoices' = invoices
               /\ formData' = formData
               /\ ~lastEvent'.ok
               /\ lastEvent'.logged # ""]_vars

\* A creation was refused while the list showed invoices and the form was
\* filled in.
C15_Witness ==
    /\ lastEvent.op = "createInvoice"
    /\ ~lastEvent.ok
    /\ lastEvent.logged = "Failed to create invoice:"
    /\ invoices # <<>>
    /\ formData = BaseInput

\* The list is in newest-created-first order.
NewestFirst(list) ==
    \A i \in 1..Len(list) :
        i < Len(list) => list[i].created_at >= list[i + 1].created_at

\* C16: handling a successful create response puts the returned invoice at
\* the front of the local list, keeps the rest in its order, resets the form
\* to its defaults, and the list is then in newest-created-first order.
C16_CreatePrepends ==
    [][\A c \in InFlight :
          (/\ Settles(c)
           /\ requests[c].op = "createInvoice"
           /\ requests[c].error = "none")
            => /\ invoices' = <<requests[c].result[1]>> \o invoices
               /\ formData' = DefaultFormData
               /\ NewestFirst(invoices')]_vars

\* C17: handling a successful status-update response for an id replaces the
\* local entries with that id by the Invoice the service returned and leaves
\* every other entry, and the order and length of the list, unchanged.
C17_UpdateReplacesEntry ==
    [][\A c \in InFlight :
          (/\ Settles(c)
           /\ requests[c].op = "updateInvoiceStatus"
           /\ requests[c].error = "none")
            => /\ Len(invoices') = Len(invoices)
               /\ \A i \in 1..Len(invoices) :
                     invoices'[i] = IF invoices[i].id = requests[c].input.id
                                    THEN requests[c].result[1]
                                    ELSE invoices[i]]_vars

\* A status update was applied to a list that shows two different invoices,
\* which now differ in status.
C17_Witness ==
    /\ lastEvent.op = "updateInvoiceStatus"
    /\ lastEvent.ok
    /\ \E i, j \in 1..Len(invoices) :
          invoices[i].id # invoices[j].id /\ invoices[i].status # invoices[j].status

\* C19: the local invoice list never holds two entries with the same id.
C19_NoDuplicateIds ==
    \A i, j \in 1..Len(invoices) : i # j => invoices[i].id # invoices[j].id

\* No other client has written to the store: no row is for a client name
\* of the other writers' requests, which the form never holds.
OnlyWriter ==
    \A r \in invoicesTable :
        r.client_name \notin {raw.client_name : raw \in OtherWriterCreates}

\* Every request the client sent has been answered and handled.
AllCompleted == \A c \in InFlight : requests[c].pc = "idle"

\* C20: with this client as the only writer and every request completed, each
\* entry of the local list shows the status its invoice has in the store.
C20_StatusMatchesStore ==
    (OnlyWriter /\ AllCompleted)
      => \A i \in 1..Len(invoices) :
            \E r \in invoicesTable :
                r.id = invoices[i].id /\ r.status = invoices[i].status

====
